---- MODULE Spec2Model ----
(***************************************************************************)
(* Model of src/AdvancedVector/vector.h: RawMemory<T> (a block of raw      *)
(* storage) and Vector<T> (size_ + data_) over an explicit heap.           *)
(*                                                                         *)
(* The heap maps an address to a region: whether it is allocated and what  *)
(* each slot holds (raw memory, a live element, a moved-from element).     *)
(* Every public operation of Vector is one action.  The element type T is  *)
(* a template parameter; `kind` fixes its traits, which decide the         *)
(* `if constexpr` branches and which element operations can throw.  An     *)
(* operation takes the input f: the f-th throwing step of the call throws  *)
(* (0: nothing throws).                                                    *)
(*                                                                         *)
(* Spec:     two vectors, every operation, small capacities.               *)
(* SpecOne:  one vector, every operation on it, larger capacities.         *)
(* SpecRhs:  one vector with every operation, and a source vector it is    *)
(*           copy-constructed and copy-assigned from.                      *)
(* SpecPush: appends to a default-constructed vector.                      *)
(***************************************************************************)
EXTENDS Integers, Sequences, FiniteSets, TLC

VARIABLES kind, vec, mem, last

vars == <<kind, vec, mem, last>>

(* ---------------- bounds ---------------- *)
MaxCap == 4        \* largest capacity asked for: one vector
MaxCapRhs == 2     \* largest capacity asked for: a vector and a source to copy from
MaxCapPair == 1    \* largest capacity asked for: two vectors, every operation
NumAddrs == 3      \* number of distinct heap addresses
MaxPush == 5       \* appends in the append-only specification

(* ---------------- element type and slots ---------------- *)
Vecs == {"a", "b"}
Vals == {0, 1}
Default == 0       \* T{}: the value-initialised element
Uninit == -1       \* a slot of raw memory holding no object
Moved == -2        \* a live object that has been moved from
Null == 0          \* nullptr
Addrs == 1..NumAddrs

\* nothrow:  T is copyable, its move constructor and move assignment are noexcept
\* copying:  T is copyable, its move constructor / assignment may throw
\* moveonly: T is not copy constructible, its move constructor / assignment may throw
Kinds == {"nothrow", "copying", "moveonly"}

is_nothrow_move_constructible == kind = "nothrow"
is_copy_constructible == kind # "moveonly"
\* a transfer that moves whatever T is
UseMoveAlways == TRUE

\* the condition of every `if constexpr` of the file
UseMove == is_nothrow_move_constructible \/ ~is_copy_constructible
MoveCanThrow == ~is_nothrow_move_constructible

IsLive(c) == c # Uninit
LiveCount(cells) == Cardinality({i \in DOMAIN cells : IsLive(cells[i])})
Min(S) == CHOOSE x \in S : \A y \in S : x <= y

(* ---------------- RawMemory over the heap ---------------- *)
FreeRegion == [alloc |-> FALSE, cells |-> <<>>]
FreeAddrs(m) == {p \in Addrs : ~m[p].alloc}
CanAllocate(m) == FreeAddrs(m) # {}

\* RawMemory::Allocate: nullptr for n = 0, else a fresh region of n raw slots
Allocate(m, n) ==
    IF n = 0 THEN [m |-> m, p |-> Null]
    ELSE LET p == Min(FreeAddrs(m))
         IN [m |-> [m EXCEPT ![p] = [alloc |-> TRUE, cells |-> [i \in 1..n |-> Uninit]]],
             p |-> p]

\* RawMemory::Deallocate / ~RawMemory: operator delete(nullptr) does nothing
Deallocate(m, p) == IF p = Null THEN m ELSE [m EXCEPT ![p] = FreeRegion]

\* live objects whose storage is released without their destructor having run
LostBy(m, p) == IF p = Null THEN 0 ELSE LiveCount(m[p].cells)

Get(m, p, i) == m[p].cells[i + 1]
Put(m, p, i, c) == [m EXCEPT ![p].cells[i + 1] = c]

\* std::destroy_n(buf + off, n)
DestroyN(m, p, off, n) ==
    IF n = 0 THEN m
    ELSE [m EXCEPT ![p].cells = [i \in DOMAIN @ |->
              IF i - 1 >= off /\ i - 1 < off + n THEN Uninit ELSE @[i]]]

\* a bulk copy that stops one element early
UninitCopyNOneShort(m, src, so, n, dst, do, k) ==
    IF n = 0 THEN m
    ELSE LET done == IF k = 0 THEN n - 1 ELSE k - 1
             m1 == [m EXCEPT ![dst].cells = [i \in DOMAIN @ |->
                        IF i - 1 >= do /\ i - 1 < do + done
                        THEN Get(m, src, so + (i - 1 - do)) ELSE @[i]]]
         IN IF k = 0 THEN m1 ELSE DestroyN(m1, dst, do, k - 1)

\* a bulk copy that leaves the copies it made when a copy throws
UninitCopyNNoCleanup(m, src, so, n, dst, do, k) ==
    IF n = 0 THEN m
    ELSE LET done == IF k = 0 THEN n ELSE k - 1
         IN [m EXCEPT ![dst].cells = [i \in DOMAIN @ |->
                IF i - 1 >= do /\ i - 1 < do + done
                THEN Get(m, src, so + (i - 1 - do)) ELSE @[i]]]

\* std::uninitialized_copy_n(src + so, n, dst + do); the k-th copy throws
\* (k = 0: none); on a throw the copies already made are destroyed
UninitCopyN(m, src, so, n, dst, do, k) ==
    IF n = 0 THEN m
    ELSE LET done == IF k = 0 THEN n ELSE k - 1
             m1 == [m EXCEPT ![dst].cells = [i \in DOMAIN @ |->
                        IF i - 1 >= do /\ i - 1 < do + done
                        THEN Get(m, src, so + (i - 1 - do)) ELSE @[i]]]
         IN IF k = 0 THEN m1 ELSE DestroyN(m1, dst, do, k - 1)

\* std::uninitialized_move_n: as above, and every source moved so far is
\* left moved-from, also when a later move throws
UninitMoveN(m, src, so, n, dst, do, k) ==
    IF n = 0 THEN m
    ELSE LET done == IF k = 0 THEN n ELSE k - 1
             m1 == [m EXCEPT ![src].cells = [i \in DOMAIN @ |->
                        IF i - 1 >= so /\ i - 1 < so + done THEN Moved ELSE @[i]]]
             m2 == [m1 EXCEPT ![dst].cells = [i \in DOMAIN @ |->
                        IF i - 1 >= do /\ i - 1 < do + done
                        THEN Get(m, src, so + (i - 1 - do)) ELSE @[i]]]
         IN IF k = 0 THEN m2 ELSE DestroyN(m2, dst, do, k - 1)

\* a value construction that stops one element early
ValueConstructNOneShort(m, p, off, n, k) ==
    IF n = 0 THEN m
    ELSE LET done == IF k = 0 THEN n - 1 ELSE k - 1
             m1 == [m EXCEPT ![p].cells = [i \in DOMAIN @ |->
                        IF i - 1 >= off /\ i - 1 < off + done THEN Default ELSE @[i]]]
         IN IF k = 0 THEN m1 ELSE DestroyN(m1, p, off, k - 1)

\* a value construction that leaves what it built when a construction throws
ValueConstructNNoCleanup(m, p, off, n, k) ==
    IF n = 0 THEN m
    ELSE LET done == IF k = 0 THEN n ELSE k - 1
         IN [m EXCEPT ![p].cells = [i \in DOMAIN @ |->
                IF i - 1 >= off /\ i - 1 < off + done THEN Default ELSE @[i]]]

\* std::uninitialized_value_construct_n(buf + off, n); the k-th T() throws
\* (k = 0: none); on a throw the objects already built are destroyed
ValueConstructN(m, p, off, n, k) ==
    IF n = 0 THEN m
    ELSE LET done == IF k = 0 THEN n ELSE k - 1
             m1 == [m EXCEPT ![p].cells = [i \in DOMAIN @ |->
                        IF i - 1 >= off /\ i - 1 < off + done THEN Default ELSE @[i]]]
         IN IF k = 0 THEN m1 ELSE DestroyN(m1, p, off, k - 1)

\* the bulk transfer chosen by `if constexpr` (k <= 0: nothing throws); st is "ok", "fail" (the k-th
\* element operation threw) or "invalid" (the transfer has no k-th throwing step)
Transfer(m, src, so, n, dst, do, k) ==
    IF k <= 0 THEN [m |-> IF UseMove THEN UninitMoveN(m, src, so, n, dst, do, 0)
                                    ELSE UninitCopyN(m, src, so, n, dst, do, 0),
                   st |-> "ok"]
    ELSE IF k > n \/ (UseMove /\ ~MoveCanThrow) THEN [m |-> m, st |-> "invalid"]
    ELSE [m |-> IF UseMove THEN UninitMoveN(m, src, so, n, dst, do, k)
                           ELSE UninitCopyN(m, src, so, n, dst, do, k),
          st |-> "fail"]

(* ---------------- Vector ---------------- *)
NoVector == [live |-> FALSE, size_ |-> 0, buffer_ |-> Null, capacity_ |-> 0]
EmptyVector == [live |-> TRUE, size_ |-> 0, buffer_ |-> Null, capacity_ |-> 0]
MkVector(s, p, c) == [live |-> TRUE, size_ |-> s, buffer_ |-> p, capacity_ |-> c]

\* what an operation did: the state it leaves, which step threw ("none" if it
\* returned), the path it took, the offset it returned, the objects it lost
Res(vc, m, lost, fail, path, ret) ==
    [vec |-> vc, mem |-> m, lost |-> lost, fail |-> fail, path |-> path, ret |-> ret]
Invalid(vc, m) == Res(vc, m, 0, "invalid", "-", 0)

\* the elements v[0..size)
Elems(vc, m, v) == [i \in 1..vc[v].size_ |-> m[vc[v].buffer_].cells[i]]

\* number of throwing steps of a bulk transfer of n elements
TransferSteps(n) == IF UseMove /\ ~MoveCanThrow THEN 0 ELSE n

(* ---------------- construction and destruction ---------------- *)
\* Vector(size_t size): data_(size), then uninitialized_value_construct_n
SizedCtorOp(vc, m, v, n, f) ==
    LET aSteps == IF n = 0 THEN 0 ELSE 1
        A == Allocate(m, n)
        k == f - aSteps
    IN IF f > aSteps + n THEN Invalid(vc, m)
       ELSE IF n # 0 /\ (f = 1 \/ ~CanAllocate(m)) THEN Res(vc, m, 0, "alloc", "-", 0)
       ELSE IF k > 0
       THEN \* the k-th T() throws: the k-1 built are destroyed, ~RawMemory releases
            LET m1 == ValueConstructN(A.m, A.p, 0, n, k)
            IN Res(vc, Deallocate(m1, A.p), LostBy(m1, A.p), "construct", "-", 0)
       ELSE Res([vc EXCEPT ![v] = MkVector(n, A.p, n)],
                ValueConstructN(A.m, A.p, 0, n, 0), 0, "none", "-", 0)

\* a copy construction that takes the source's block instead of a new one
CopyCtorOpSharesBlock(vc, m, v, w, f) ==
    IF f # 0 THEN Invalid(vc, m)
    ELSE Res([vc EXCEPT ![v] = MkVector(vc[w].size_, vc[w].buffer_, vc[w].size_)],
             m, 0, "none", "-", 0)

\* Vector(const Vector& other): other is const, so uninitialized_move_n moves
\* from const T and therefore copies, exactly as uninitialized_copy_n does
CopyCtorOp(vc, m, v, w, f) ==
    LET n == vc[w].size_
        aSteps == IF n = 0 THEN 0 ELSE 1
        A == Allocate(m, n)
        k == f - aSteps
    IN IF f > aSteps + n THEN Invalid(vc, m)
       ELSE IF n # 0 /\ (f = 1 \/ ~CanAllocate(m)) THEN Res(vc, m, 0, "alloc", "-", 0)
       ELSE IF k > 0
       THEN Res(vc, Deallocate(UninitCopyN(A.m, vc[w].buffer_, 0, n, A.p, 0, k), A.p),
                0, "transfer", "-", 0)
       ELSE Res([vc EXCEPT ![v] = MkVector(n, A.p, n)],
                UninitCopyN(A.m, vc[w].buffer_, 0, n, A.p, 0, 0), 0, "none", "-", 0)

\* a move assignment of the block that leaves the source its address
RawMemoryMoveAssignKeepsSource(vc, m, v, w) ==
    IF v # w
    THEN [vec |-> [vc EXCEPT ![v].buffer_ = vc[w].buffer_, ![v].capacity_ = vc[w].capacity_],
          mem |-> m]
    ELSE [vec |-> vc, mem |-> m]

\* RawMemory::operator=(RawMemory&&): the destination takes the source's
\* buffer_ and capacity_; what it held before is overwritten, not released
RawMemoryMoveAssign(vc, m, v, w) ==
    IF v # w
    THEN [vec |-> [vc EXCEPT ![v].buffer_ = vc[w].buffer_, ![v].capacity_ = vc[w].capacity_,
                             ![w].buffer_ = Null, ![w].capacity_ = 0],
          mem |-> m]
    ELSE [vec |-> vc, mem |-> m]

\* a move construction that leaves the source its size
MoveCtorOpKeepsSize(vc, m, v, w) ==
    LET R == RawMemoryMoveAssign([vc EXCEPT ![v] = EmptyVector], m, v, w)
    IN Res([R.vec EXCEPT ![v].size_ = vc[w].size_], R.mem, 0, "none", "-", 0)

\* Vector(Vector&& other): data_ starts as the empty RawMemory
MoveCtorOp(vc, m, v, w) ==
    LET R == RawMemoryMoveAssign([vc EXCEPT ![v] = EmptyVector], m, v, w)
    IN Res([R.vec EXCEPT ![v].size_ = vc[w].size_, ![w].size_ = 0], R.mem, 0, "none", "-", 0)

\* ~Vector: destroy_n(data_, size_), then ~RawMemory releases the block
DtorOp(vc, m, v) ==
    LET p == vc[v].buffer_
        m1 == DestroyN(m, p, 0, vc[v].size_)
    IN Res([vc EXCEPT ![v] = NoVector], Deallocate(m1, p), LostBy(m1, p), "none", "-", 0)

\* RawMemory::Swap and Vector::Swap
SwapOp(vc, m, v, w) ==
    Res([vc EXCEPT ![v] = vc[w], ![w] = vc[v]], m, 0, "none", "-", 0)

(* ---------------- capacity ---------------- *)
\* a Reserve that destroys the elements before it has the new block
ReserveOpDestroysFirst(vc, m, v, n, f) ==
    LET s == vc[v].size_
        p == vc[v].buffer_
        A == Allocate(m, n)
        T == Transfer(A.m, p, 0, s, A.p, 0, f - 1)
    IN IF n <= vc[v].capacity_
       THEN IF f = 0 THEN Res(vc, m, 0, "none", "noop", 0) ELSE Invalid(vc, m)
       ELSE IF f = 1 \/ ~CanAllocate(m)
       THEN Res(vc, DestroyN(m, p, 0, s), 0, "alloc", "realloc", 0)
       ELSE IF T.st = "invalid" THEN Invalid(vc, m)
       ELSE IF T.st = "fail"
       THEN Res(vc, Deallocate(T.m, A.p), LostBy(T.m, A.p), "transfer", "realloc", 0)
       ELSE LET m1 == DestroyN(T.m, p, 0, s)
            IN Res([vc EXCEPT ![v].buffer_ = A.p, ![v].capacity_ = n],
                   Deallocate(m1, p), LostBy(m1, p), "none", "realloc", 0)

\* Vector::Reserve
ReserveOp(vc, m, v, n, f) ==
    LET s == vc[v].size_
        p == vc[v].buffer_
        A == Allocate(m, n)
        T == Transfer(A.m, p, 0, s, A.p, 0, f - 1)
    IN IF n <= vc[v].capacity_
       THEN IF f = 0 THEN Res(vc, m, 0, "none", "noop", 0) ELSE Invalid(vc, m)
       ELSE IF f = 1 \/ ~CanAllocate(m) THEN Res(vc, m, 0, "alloc", "realloc", 0)
       ELSE IF T.st = "invalid" THEN Invalid(vc, m)
       ELSE IF T.st = "fail"
       THEN Res(vc, Deallocate(T.m, A.p), LostBy(T.m, A.p), "transfer", "realloc", 0)
       ELSE LET m1 == DestroyN(T.m, p, 0, s)
            IN Res([vc EXCEPT ![v].buffer_ = A.p, ![v].capacity_ = n],
                   Deallocate(m1, p), LostBy(m1, p), "none", "realloc", 0)

\* Vector::Resize
ResizeOp(vc, m, v, n, f) ==
    LET s == vc[v].size_
        rSteps == IF n > vc[v].capacity_ THEN 1 + TransferSteps(s) ELSE 0
        R == ReserveOp(vc, m, v, n, IF f <= rSteps THEN f ELSE 0)
        k == IF f > rSteps THEN f - rSteps ELSE 0
    IN IF n = s
       THEN IF f = 0 THEN Res(vc, m, 0, "none", "noop", 0) ELSE Invalid(vc, m)
       ELSE IF n < s
       THEN IF f = 0
            THEN Res([vc EXCEPT ![v].size_ = n], DestroyN(m, vc[v].buffer_, n, s - n),
                     0, "none", "shrink", 0)
            ELSE Invalid(vc, m)
       ELSE IF f > rSteps + (n - s) THEN Invalid(vc, m)
       ELSE IF R.fail # "none" THEN [R EXCEPT !.path = "grow"]
       ELSE IF k > 0
       THEN Res(R.vec, ValueConstructN(R.mem, R.vec[v].buffer_, s, n - s, k),
                R.lost, "construct", "grow", 0)
       ELSE Res([R.vec EXCEPT ![v].size_ = n],
                ValueConstructN(R.mem, R.vec[v].buffer_, s, n - s, 0),
                R.lost, "none", "grow", 0)

(* ---------------- append and remove at the end ---------------- *)
\* a growth by one slot
EmplaceBackCapacityPlusOne(s, c) == c + 1

\* size_t new_capacity = size_ == 0 ? 1 : data_.Capacity() * 2
EmplaceBackCapacity(s, c) == IF s = 0 THEN 1 ELSE c * 2

\* Vector::EmplaceBack (PushBack forwards to it)
EmplaceBackOp(vc, m, v, x, f) ==
    LET s == vc[v].size_
        p == vc[v].buffer_
        c == vc[v].capacity_
        new_capacity == EmplaceBackCapacity(s, c)
        A == Allocate(m, new_capacity)
        m1 == Put(A.m, A.p, s, x)
        T == Transfer(m1, p, 0, s, A.p, 0, f - 2)
    IN IF s < c
       THEN IF f = 0
            THEN Res([vc EXCEPT ![v].size_ = s + 1], Put(m, p, s, x), 0, "none", "inplace", s)
            ELSE IF f = 1 THEN Res(vc, m, 0, "construct", "inplace", 0)
            ELSE Invalid(vc, m)
       ELSE IF f = 1 \/ ~CanAllocate(m) THEN Res(vc, m, 0, "alloc", "realloc", 0)
       ELSE IF f = 2
       THEN Res(vc, Deallocate(A.m, A.p), 0, "construct", "realloc", 0)
       ELSE IF T.st = "invalid" THEN Invalid(vc, m)
       ELSE IF T.st = "fail"
       THEN \* new_data goes out of scope with the new element still in it
            Res(vc, Deallocate(T.m, A.p), LostBy(T.m, A.p), "transfer", "realloc", 0)
       ELSE LET m2 == DestroyN(T.m, p, 0, s)
            IN Res([vc EXCEPT ![v] = MkVector(s + 1, A.p, new_capacity)],
                   Deallocate(m2, p), LostBy(m2, p), "none", "realloc", s)

\* Vector::PopBack
PopBackOp(vc, m, v) ==
    LET s == vc[v].size_
    IN Res([vc EXCEPT ![v].size_ = s - 1], DestroyN(m, vc[v].buffer_, s - 1, 1),
           0, "none", "-", 0)

(* ---------------- insert and erase ---------------- *)
\* a backward shift that stops one element short
ShiftRightOneShort(cells, s, j) ==
    [i \in DOMAIN cells |->
        LET t == i - 1
            jj == IF j > 0 THEN j - 1 ELSE 0
        IN IF t = s THEN cells[s]
           ELSE IF t >= s - jj /\ t <= s - 1 THEN cells[t]
           ELSE IF t = s - jj - 1 THEN Moved
           ELSE cells[i]]

\* the block after new (end()) T(std::move(data_[size_ - 1])) and the first j
\* assignments of std::move_backward(begin() + dist, end() - 1, end())
ShiftRight(cells, s, j) ==
    [i \in DOMAIN cells |->
        LET t == i - 1
        IN IF t = s THEN cells[s]
           ELSE IF t >= s - j /\ t <= s - 1 THEN cells[t]
           ELSE IF t = s - j - 1 THEN Moved
           ELSE cells[i]]

\* Vector::EmplaceWithoutRealloc
EmplaceWithoutReallocOp(vc, m, v, dist, x, f) ==
    LET s == vc[v].size_
        p == vc[v].buffer_
        nShift == s - 1 - dist
        steps == IF MoveCanThrow THEN 1 + 1 + nShift + 1 ELSE 1
        cells == m[p].cells
        After(j) == [m EXCEPT ![p].cells = ShiftRight(cells, s, j)]
    IN IF f > steps THEN Invalid(vc, m)
       ELSE IF f = 1 THEN Res(vc, m, 0, "construct", "inplace", 0)
       ELSE IF f = 2 THEN Res(vc, m, 0, "move_last", "inplace", 0)
       ELSE IF f > 2 /\ f <= 2 + nShift
       THEN Res(vc, After(f - 3), 0, "shift", "inplace", 0)
       ELSE IF f = 3 + nShift
       THEN Res(vc, After(nShift), 0, "assign", "inplace", 0)
       ELSE Res(vc, Put(After(nShift), p, dist, x), 0, "none", "inplace", dist)

\* a growth by one slot
EmplaceWithReallocCapacityPlusOne(s) == s + 1

\* size_t size = size_ == 0 ? 1 : size_ * 2
EmplaceWithReallocCapacity(s) == IF s = 0 THEN 1 ELSE s * 2

\* Vector::EmplaceWithRealloc
EmplaceWithReallocOp(vc, m, v, dist, x, f) ==
    LET s == vc[v].size_
        p == vc[v].buffer_
        size == EmplaceWithReallocCapacity(s)
        A == Allocate(m, size)
        m1 == Put(A.m, A.p, dist, x)
        pre == TransferSteps(dist)
        k == f - 2
        T1 == Transfer(m1, p, 0, dist, A.p, 0, IF k >= 1 /\ k <= pre THEN k ELSE 0)
        T2 == Transfer(T1.m, p, dist, s - dist, A.p, dist + 1, IF k > pre THEN k - pre ELSE 0)
    IN IF f = 1 \/ ~CanAllocate(m) THEN Res(vc, m, 0, "alloc", "realloc", 0)
       ELSE IF f = 2 THEN Res(vc, Deallocate(A.m, A.p), 0, "construct", "realloc", 0)
       ELSE IF T1.st = "fail"
       THEN Res(vc, Deallocate(T1.m, A.p), LostBy(T1.m, A.p), "transfer", "realloc", 0)
       ELSE IF T2.st = "invalid" THEN Invalid(vc, m)
       ELSE IF T2.st = "fail"
       THEN Res(vc, Deallocate(T2.m, A.p), LostBy(T2.m, A.p), "transfer", "realloc", 0)
       ELSE LET m2 == DestroyN(T2.m, p, 0, s)
            IN Res([vc EXCEPT ![v].buffer_ = A.p, ![v].capacity_ = size],
                   Deallocate(m2, p), LostBy(m2, p), "none", "realloc", dist)

\* an Emplace that counts the new element also when a helper throws
EmplaceOpCountsOnThrow(vc, m, v, dist, x, f) ==
    LET R == IF vc[v].size_ < vc[v].capacity_
             THEN EmplaceWithoutReallocOp(vc, m, v, dist, x, f)
             ELSE EmplaceWithReallocOp(vc, m, v, dist, x, f)
    IN IF dist = vc[v].size_
       THEN [EmplaceBackOp(vc, m, v, x, f) EXCEPT !.path = "end"]
       ELSE [R EXCEPT !.vec[v].size_ = vc[v].size_ + 1]

\* Vector::Emplace (Insert forwards to it); ++size_ follows either helper
EmplaceOp(vc, m, v, dist, x, f) ==
    LET R == IF vc[v].size_ < vc[v].capacity_
             THEN EmplaceWithoutReallocOp(vc, m, v, dist, x, f)
             ELSE EmplaceWithReallocOp(vc, m, v, dist, x, f)
    IN IF dist = vc[v].size_
       THEN [EmplaceBackOp(vc, m, v, x, f) EXCEPT !.path = "end"]
       ELSE IF R.fail = "none"
       THEN [R EXCEPT !.vec[v].size_ = vc[v].size_ + 1]
       ELSE R

\* a forward shift that moves nothing
ShiftLeftNothing(cells, dist, j) == cells

\* a forward shift that stops one element short
ShiftLeftOneShort(cells, dist, j) ==
    [i \in DOMAIN cells |->
        LET t == i - 1
            jj == IF j > 0 THEN j - 1 ELSE 0
        IN IF t >= dist /\ t < dist + jj THEN cells[i + 1]
           ELSE IF jj > 0 /\ t = dist + jj THEN Moved
           ELSE cells[i]]

\* the block after the first j assignments of std::move(begin() + dist + 1, end(), begin() + dist)
ShiftLeft(cells, dist, j) ==
    [i \in DOMAIN cells |->
        LET t == i - 1
        IN IF t >= dist /\ t < dist + j THEN cells[i + 1]
           ELSE IF j > 0 /\ t = dist + j THEN Moved
           ELSE cells[i]]

\* Vector::Erase
EraseOp(vc, m, v, dist, f) ==
    LET s == vc[v].size_
        p == vc[v].buffer_
        nShift == s - 1 - dist
        steps == IF MoveCanThrow THEN nShift ELSE 0
        After(j) == [m EXCEPT ![p].cells = ShiftLeft(m[p].cells, dist, j)]
    IN IF f > steps THEN Invalid(vc, m)
       ELSE IF f > 0 THEN Res(vc, After(f - 1), 0, "shift", "-", 0)
       ELSE Res([vc EXCEPT ![v].size_ = s - 1], DestroyN(After(nShift), p, s - 1, 1),
                0, "none", "-", dist)

(* ---------------- assignment ---------------- *)
\* an element copy-assignment loop that stops one element early
CopyAssignNOneShort(m, src, n, dst, k) ==
    LET done == IF k = 0 THEN n - 1 ELSE k - 1
    IN IF done <= 0 THEN m
       ELSE [m EXCEPT ![dst].cells = [i \in DOMAIN @ |->
                 IF i <= done THEN m[src].cells[i] ELSE @[i]]]

\* std::copy(src, src + n, dst): element copy-assignment; the k-th throws
CopyAssignN(m, src, n, dst, k) ==
    LET done == IF k = 0 THEN n ELSE k - 1
    IN IF done = 0 THEN m
       ELSE [m EXCEPT ![dst].cells = [i \in DOMAIN @ |->
                 IF i <= done THEN m[src].cells[i] ELSE @[i]]]

\* Vector::operator=(const Vector& rhs)
CopyAssignOp(vc, m, v, w, f) ==
    LET s == vc[v].size_
        p == vc[v].buffer_
        rs == vc[w].size_
        rp == vc[w].buffer_
        \* grow path: Vector rhs_copy(rhs); Swap(rhs_copy); ~rhs_copy
        C == CopyCtorOp(vc, m, v, w, f)
        m1 == DestroyN(C.mem, p, 0, s)
        \* reuse path
        min_of_copy == IF s < rs THEN s ELSE rs
        extra == IF rs > s THEN rs - s ELSE 0
        m2 == CopyAssignN(m, rp, min_of_copy, p, 0)
    IN IF v = w
       THEN IF f = 0 THEN Res(vc, m, 0, "none", "self", 0) ELSE Invalid(vc, m)
       ELSE IF rs > vc[v].capacity_
       THEN IF C.fail # "none" THEN [C EXCEPT !.path = "grow"]
            ELSE Res(C.vec, Deallocate(m1, p), LostBy(m1, p), "none", "grow", 0)
       ELSE IF f > min_of_copy + extra THEN Invalid(vc, m)
       ELSE IF f >= 1 /\ f <= min_of_copy
       THEN Res(vc, CopyAssignN(m, rp, min_of_copy, p, f), 0, "assign", "reuse", 0)
       ELSE IF f > min_of_copy
       THEN Res(vc, UninitCopyN(m2, rp, s, extra, p, s, f - min_of_copy),
                0, "transfer", "reuse", 0)
       ELSE Res([vc EXCEPT ![v].size_ = rs],
                IF s > rs THEN DestroyN(m2, p, rs, s - rs)
                ELSE UninitCopyN(m2, rp, s, extra, p, s, 0),
                0, "none", "reuse", 0)

\* a move assignment that leaves the source its size
MoveAssignOpKeepsSize(vc, m, v, w) ==
    LET R == RawMemoryMoveAssign(vc, m, v, w)
    IN IF v = w THEN Res(vc, m, 0, "none", "self", 0)
       ELSE Res([R.vec EXCEPT ![v].size_ = vc[w].size_], R.mem, 0, "none", "-", 0)

\* Vector::operator=(Vector&& rhs)
MoveAssignOp(vc, m, v, w) ==
    LET R == RawMemoryMoveAssign(vc, m, v, w)
    IN IF v = w THEN Res(vc, m, 0, "none", "self", 0)
       ELSE Res([R.vec EXCEPT ![v].size_ = vc[w].size_, ![w].size_ = 0],
                R.mem, 0, "none", "-", 0)

(* ---------------- the program ---------------- *)
\* the record of the latest call: the operation, the step that threw ("none" if
\* it returned) and the path it took
NoOp == [op |-> "init", fail |-> "none", path |-> "-"]

\* the throwing step of a call: 0 for none, else the index of the step that
\* throws; no call bounded by capacity B has more than B + 3 throwing steps
FailPoints(B) == 0..(B + 3)

\* an operation acts: the state it leaves, and the record of the call
Commit(op, v, w, i, x, R) ==
    /\ R.fail # "invalid"
    /\ vec' = R.vec
    /\ mem' = R.mem
    /\ last' = [op |-> op, fail |-> R.fail, path |-> R.path]
    /\ UNCHANGED kind

Live(v) == vec[v].live

\* the capacity an append or an insert asks for when the block is full
GrowsTo(v) == IF vec[v].size_ = 0 THEN 1 ELSE vec[v].size_ * 2

\* Every action takes B, the largest capacity the caller asks for.

DefaultCtor(v) ==
    /\ ~Live(v)
    /\ Commit("Vector()", v, v, 0, 0, Res([vec EXCEPT ![v] = EmptyVector], mem, 0, "none", "-", 0))

SizedCtor(v, B) ==
    /\ ~Live(v)
    /\ \E n \in 0..B, f \in FailPoints(B) :
          Commit("Vector(n)", v, v, n, 0, SizedCtorOp(vec, mem, v, n, f))

CopyCtor(v, w, B) ==
    /\ v # w /\ ~Live(v) /\ Live(w) /\ is_copy_constructible
    /\ \E f \in FailPoints(B) : Commit("Vector(const&)", v, w, 0, 0, CopyCtorOp(vec, mem, v, w, f))

MoveCtor(v, w) ==
    /\ v # w /\ ~Live(v) /\ Live(w)
    /\ Commit("Vector(&&)", v, w, 0, 0, MoveCtorOp(vec, mem, v, w))

Dtor(v) ==
    /\ Live(v)
    /\ Commit("~Vector", v, v, 0, 0, DtorOp(vec, mem, v))

CopyAssign(v, w, B) ==
    /\ Live(v) /\ Live(w) /\ is_copy_constructible
    /\ \E f \in FailPoints(B) :
          Commit("operator=(const&)", v, w, 0, 0, CopyAssignOp(vec, mem, v, w, f))

MoveAssign(v, w) ==
    /\ Live(v) /\ Live(w)
    /\ Commit("operator=(&&)", v, w, 0, 0, MoveAssignOp(vec, mem, v, w))

Swap(v, w) ==
    /\ Live(v) /\ Live(w)
    /\ Commit("Swap", v, w, 0, 0, SwapOp(vec, mem, v, w))

Reserve(v, B) ==
    /\ Live(v)
    /\ \E n \in 0..B, f \in FailPoints(B) :
          Commit("Reserve", v, v, n, 0, ReserveOp(vec, mem, v, n, f))

Resize(v, B) ==
    /\ Live(v)
    /\ \E n \in 0..B, f \in FailPoints(B) :
          Commit("Resize", v, v, n, 0, ResizeOp(vec, mem, v, n, f))

EmplaceBack(v, B) ==
    /\ Live(v)
    /\ vec[v].size_ < vec[v].capacity_ \/ GrowsTo(v) <= B
    /\ \E x \in Vals, f \in FailPoints(B) :
          Commit("EmplaceBack", v, v, vec[v].size_, x, EmplaceBackOp(vec, mem, v, x, f))

PopBack(v) ==
    /\ Live(v)
    /\ vec[v].size_ > 0
    /\ Commit("PopBack", v, v, 0, 0, PopBackOp(vec, mem, v))

Emplace(v, B) ==
    /\ Live(v)
    /\ vec[v].size_ < vec[v].capacity_ \/ GrowsTo(v) <= B
    /\ \E dist \in 0..vec[v].size_, x \in Vals, f \in FailPoints(B) :
          Commit("Emplace", v, v, dist, x, EmplaceOp(vec, mem, v, dist, x, f))

Erase(v, B) ==
    /\ Live(v)
    /\ \E dist \in 0..(vec[v].size_ - 1), f \in FailPoints(B) :
          Commit("Erase", v, v, dist, 0, EraseOp(vec, mem, v, dist, f))

\* Vector::PushBack, on its own: appends only, MaxPush of them
PushBack(v) ==
    /\ Live(v)
    /\ vec[v].size_ < MaxPush
    /\ \E x \in Vals, f \in FailPoints(MaxPush) :
          Commit("EmplaceBack", v, v, vec[v].size_, x, EmplaceBackOp(vec, mem, v, x, f))

\* the operations on one vector
Single(v, B) ==
    \/ DefaultCtor(v)
    \/ SizedCtor(v, B)
    \/ Dtor(v)
    \/ Reserve(v, B)
    \/ Resize(v, B)
    \/ EmplaceBack(v, B)
    \/ PopBack(v)
    \/ Emplace(v, B)
    \/ Erase(v, B)

\* the operations between two vectors (an assignment or a swap may be to itself)
Pair(v, w, B) ==
    \/ CopyCtor(v, w, B)
    \/ MoveCtor(v, w)
    \/ CopyAssign(v, w, B)
    \/ MoveAssign(v, w)
    \/ Swap(v, w)

\* a vector that is only built, appended to and destroyed
Source(v, B) ==
    \/ DefaultCtor(v)
    \/ SizedCtor(v, B)
    \/ EmplaceBack(v, B)
    \/ Dtor(v)

Init ==
    /\ kind \in Kinds
    /\ vec = [v \in Vecs |-> NoVector]
    /\ mem = [p \in Addrs |-> FreeRegion]
    /\ last = NoOp

\* two vectors, every operation
Next ==
    \E v \in Vecs :
        \/ Single(v, MaxCapPair)
        \/ \E w \in Vecs : Pair(v, w, MaxCapPair)

Spec == Init /\ [][Next]_vars

\* one vector, every operation on it
NextOne == Single("a", MaxCap)

SpecOne == Init /\ [][NextOne]_vars

\* one vector with every operation on it, copied from and assigned from a source
NextRhs ==
    \/ Single("a", MaxCapRhs)
    \/ Source("b", MaxCapRhs)
    \/ CopyCtor("a", "b", MaxCapRhs)
    \/ \E w \in Vecs : CopyAssign("a", w, MaxCapRhs)

SpecRhs == Init /\ [][NextRhs]_vars

\* appends to a default-constructed vector
InitPush ==
    /\ kind \in Kinds
    /\ vec = [v \in Vecs |-> IF v = "a" THEN EmptyVector ELSE NoVector]
    /\ mem = [p \in Addrs |-> FreeRegion]
    /\ last = NoOp

NextPush == PushBack("a")

SpecPush == InitPush /\ [][NextPush]_vars

(* ---------------- properties ---------------- *)
\* the step is the call op with the outcome R
Did(op, R) ==
    /\ R.fail # "invalid"
    /\ vec' = R.vec
    /\ mem' = R.mem
    /\ last' = [op |-> op, fail |-> R.fail, path |-> R.path]

Offsets(v) == 0..vec[v].size_

RECURSIVE Pow2From(_, _)
Pow2From(p, n) == IF p >= n THEN p ELSE Pow2From(2 * p, n)
Pow2Ceil(n) == IF n = 0 THEN 0 ELSE Pow2From(1, n)

\* C2: appending to a default-constructed vector: after the k-th append the
\* capacity is the smallest power of two >= k, the size is k, and each append
\* puts its value after the elements already there, which stay as they were
C2_AppendDoubles ==
    /\ [](vec["a"].capacity_ = Pow2Ceil(vec["a"].size_))
    /\ [][\A x \in Vals :
            LET R == EmplaceBackOp(vec, mem, "a", x, 0)
            IN (last'.fail = "none" /\ R.fail = "none" /\ Did("EmplaceBack", R)) =>
                /\ vec'["a"].size_ = vec["a"].size_ + 1
                /\ Elems(vec', mem', "a") = Append(Elems(vec, mem, "a"), x)]_vars

\* 1, then 0, then 1 appended: size 3, capacity 4
C2_Witness ==
    /\ last.op = "EmplaceBack" /\ last.fail = "none"
    /\ vec["a"].size_ = 3 /\ vec["a"].capacity_ = 4
    /\ Elems(vec, mem, "a") = <<1, 0, 1>>

\* C3: Insert/Emplace of x at offset dist of a vector of size k returns offset
\* dist and leaves size k + 1, x at dist, the elements before dist where they
\* were and the elements from dist on one place further, on every path
C3_InsertPlaces ==
    [][(last'.op = "Emplace" /\ last'.fail = "none") =>
       \A v \in Vecs : \A dist \in Offsets(v), x \in Vals :
         LET R == EmplaceOp(vec, mem, v, dist, x, 0)
             old == Elems(vec, mem, v)
             new == Elems(vec', mem', v)
         IN (vec[v].live /\ R.fail = "none" /\ Did("Emplace", R)) =>
               /\ Len(new) = Len(old) + 1
               /\ new[dist + 1] = x
               /\ \A j \in 0..(Len(old) - 1) :
                     IF j < dist THEN new[j + 1] = old[j + 1] ELSE new[j + 2] = old[j + 1]
               /\ R.ret = dist]_vars

\* an insert before the last of at least two elements has returned, in place
C3_WitnessInPlace ==
    /\ last.op = "Emplace" /\ last.fail = "none" /\ last.path = "inplace"
    /\ vec["a"].size_ = 3

\* C4: Erase at offset dist of a vector of size k leaves size k - 1, the
\* elements before dist where they were, the later ones one place earlier,
\* and one live object fewer in the block
C4_EraseShifts ==
    [][(last'.op = "Erase" /\ last'.fail = "none") =>
       \A v \in Vecs : \A dist \in Offsets(v) \ {vec[v].size_} :
         LET R == EraseOp(vec, mem, v, dist, 0)
             old == Elems(vec, mem, v)
             new == Elems(vec', mem', v)
             p == vec[v].buffer_
         IN (vec[v].live /\ R.fail = "none" /\ Did("Erase", R)) =>
               /\ Len(new) = Len(old) - 1
               /\ \A j \in 0..(Len(new) - 1) :
                     IF j < dist THEN new[j + 1] = old[j + 1] ELSE new[j + 1] = old[j + 2]
               /\ vec'[v].buffer_ = p
               /\ LiveCount(mem'[p].cells) = LiveCount(mem[p].cells) - 1
               /\ mem'[p].cells[Len(old)] = Uninit]_vars

\* an erase before the last two elements has returned
C4_Witness ==
    /\ last.op = "Erase" /\ last.fail = "none"
    /\ vec["a"].size_ = 2 /\ vec["a"].capacity_ = 3

\* C5 (as claimed): a = std::move(b), a and b distinct: the objects a held are
\* destroyed and its block released, a has b's former block, size, capacity and
\* elements, and b is left empty with null storage
C5_MoveAssignReleases ==
    [][(last'.op = "operator=(&&)") =>
       \A v \in Vecs, w \in Vecs :
         LET p == vec[v].buffer_
         IN (v # w /\ vec[v].live /\ vec[w].live
                 /\ Did("operator=(&&)", MoveAssignOp(vec, mem, v, w))) =>
               /\ (p # Null => (LiveCount(mem'[p].cells) = 0 /\ ~mem'[p].alloc))
               /\ vec'[v] = vec[w]
               /\ Elems(vec', mem', v) = Elems(vec, mem, w)
               /\ vec'[w] = EmptyVector]_vars

\* C6 (as claimed): every region allocated and not yet released is held by
\* the block of some vector
C6_NoOrphanRegion ==
    \A p \in Addrs : mem[p].alloc => \E v \in Vecs : vec[v].live /\ vec[v].buffer_ = p

\* C7: between calls no two vectors hold the same non-null address and none
\* holds a released one; a move leaves the source with the null address and
\* capacity 0 and the destination with the source's address; a swap leaves
\* each of the two addresses with the other vector
C7_Exclusive ==
    \A v \in Vecs :
        (vec[v].live /\ vec[v].buffer_ # Null) =>
            /\ mem[vec[v].buffer_].alloc
            /\ \A w \in Vecs \ {v} : vec[w].live => vec[w].buffer_ # vec[v].buffer_

C7_Transfers ==
    (last'.op \in {"Vector(&&)", "operator=(&&)", "Swap"}) =>
    \A v \in Vecs : \A w \in Vecs \ {v} :
        /\ ((~vec[v].live /\ vec[w].live /\ Did("Vector(&&)", MoveCtorOp(vec, mem, v, w)))
              \/ (vec[v].live /\ vec[w].live /\ Did("operator=(&&)", MoveAssignOp(vec, mem, v, w)))) =>
              /\ vec'[w].buffer_ = Null /\ vec'[w].capacity_ = 0
              /\ vec'[v].buffer_ = vec[w].buffer_ /\ vec'[v].capacity_ = vec[w].capacity_
        /\ (vec[v].live /\ vec[w].live /\ Did("Swap", SwapOp(vec, mem, v, w))) =>
              /\ vec'[v].buffer_ = vec[w].buffer_ /\ vec'[w].buffer_ = vec[v].buffer_
              /\ vec'[v].capacity_ = vec[w].capacity_ /\ vec'[w].capacity_ = vec[v].capacity_

C7_ExclusiveOwnership == []C7_Exclusive /\ [][C7_Transfers]_vars

\* a move assignment from a vector that held a block has returned
C7_Witness ==
    /\ last.op = "operator=(&&)" /\ last.path # "self"
    /\ vec["a"].live /\ vec["b"].live
    /\ vec["a"].buffer_ # Null /\ vec["b"].buffer_ = Null /\ vec["b"].capacity_ = 0

\* size, capacity, block and elements of every vector are as before the call
SameVectors ==
    /\ vec' = vec
    /\ \A v \in Vecs : Elems(vec', mem', v) = Elems(vec, mem, v)

\* C8 (as claimed): if EmplaceBack throws while constructing the new element
\* or while transferring the elements, size, capacity, block and elements are
\* as before
C8_AppendStrong ==
    [][(last'.op = "EmplaceBack" /\ last'.fail \in {"construct", "transfer"}) =>
          SameVectors]_vars

\* C8 (amended): as before if the new element's construction throws, or the
\* transfer throws and T is copy constructible; if T is not copy constructible
\* and a move of the transfer throws, size, capacity and block are as before
C8_AppendStrongByCopy ==
    [][(last'.op = "EmplaceBack" /\ last'.fail \in {"construct", "transfer"}) =>
          /\ vec' = vec
          /\ ((last'.fail = "construct" \/ kind # "moveonly") => SameVectors)]_vars

\* the copy of the second of two elements into the new block has thrown
C8_Witness ==
    /\ last.op = "EmplaceBack" /\ last.fail = "transfer" /\ last.path = "realloc"
    /\ kind = "copying"
    /\ vec["a"].size_ = 2 /\ vec["a"].capacity_ = 2

\* C9 (as claimed): if any element operation of an Insert/Emplace before the
\* end throws, on either path, the size and the elements are as before
C9_InsertStrong ==
    [][(last'.op = "Emplace" /\ last'.path # "end" /\ last'.fail \notin {"none", "alloc"}) =>
          SameVectors]_vars

\* C9 (amended): as before if the construction of the new value throws, or a
\* transfer of the reallocating path throws and T is copy constructible; in
\* every other throwing case size, capacity and block are as before
C9_InsertStrongByCopy ==
    [][(last'.op = "Emplace" /\ last'.path # "end" /\ last'.fail \notin {"none", "alloc"}) =>
          /\ vec' = vec
          /\ ((last'.fail = "construct"
                 \/ (last'.path = "realloc" /\ last'.fail = "transfer" /\ kind # "moveonly"))
               => SameVectors)]_vars

\* on the reallocating path, a copy into the new block has thrown
C9_Witness ==
    /\ last.op = "Emplace" /\ last.fail = "transfer" /\ last.path = "realloc"
    /\ kind = "copying"
    /\ vec["a"].size_ = 1 /\ vec["a"].capacity_ = 1

\* C10: when the allocation of a growing call fails, the call throws and
\* nothing has changed: every vector and every slot of the heap is as before
C10_AllocFailureNoChange ==
    [][(last'.fail = "alloc") => (vec' = vec /\ mem' = mem)]_vars

\* the allocation of the grow path of a copy assignment to a non-empty vector has failed
C10_Witness ==
    /\ last.op = "operator=(const&)" /\ last.fail = "alloc" /\ last.path = "grow"
    /\ vec["a"].size_ = 1 /\ vec["b"].size_ = 2

\* C11: a = b by copy, for every size and capacity of a and size of b: a has
\* the size and the elements of b and b is as before; if b.size <= a.capacity
\* a keeps its block and capacity, otherwise a's capacity is b.size; a = a
\* changes nothing
C11_CopyAssign ==
    [][(last'.op = "operator=(const&)" /\ last'.fail = "none") =>
       \A v \in Vecs, w \in Vecs :
         LET R == CopyAssignOp(vec, mem, v, w, 0)
         IN (vec[v].live /\ vec[w].live /\ R.fail = "none" /\ Did("operator=(const&)", R)) =>
               /\ vec'[v].size_ = vec[w].size_
               /\ Elems(vec', mem', v) = Elems(vec, mem, w)
               /\ (v # w => (vec'[w] = vec[w] /\ Elems(vec', mem', w) = Elems(vec, mem, w)))
               /\ ((v # w /\ vec[w].size_ <= vec[v].capacity_) =>
                      (vec'[v].buffer_ = vec[v].buffer_ /\ vec'[v].capacity_ = vec[v].capacity_))
               /\ ((v # w /\ vec[w].size_ > vec[v].capacity_) =>
                      vec'[v].capacity_ = vec[w].size_)
               /\ (v = w => (vec' = vec /\ mem' = mem))]_vars

\* a copy assignment of two elements into a block of two has returned
C11_Witness ==
    /\ last.op = "operator=(const&)" /\ last.fail = "none" /\ last.path = "reuse"
    /\ vec["a"].size_ = 2 /\ vec["a"].capacity_ = 2
    /\ vec["b"].size_ = 2 /\ Elems(vec, mem, "b") = <<1, 0>>

\* C12: Vector c(s): c has the size and the elements of s and capacity
\* s.size, s is as before with no element moved from, c and s hold different
\* blocks, and every later call leaves the vector it is not made on with the
\* size and the elements it had
C12_Copies ==
    (last'.op = "Vector(const&)" /\ last'.fail = "none") =>
    \A v \in Vecs : \A w \in Vecs \ {v} :
      LET R == CopyCtorOp(vec, mem, v, w, 0)
      IN (~vec[v].live /\ vec[w].live /\ R.fail = "none" /\ Did("Vector(const&)", R)) =>
            /\ vec'[v].size_ = vec[w].size_
            /\ vec'[v].capacity_ = vec[w].size_
            /\ Elems(vec', mem', v) = Elems(vec, mem, w)
            /\ vec'[w] = vec[w]
            /\ Elems(vec', mem', w) = Elems(vec, mem, w)
            /\ (vec[w].size_ > 0 => vec'[v].buffer_ # vec'[w].buffer_)

C12_OtherUntouched ==
    \E w \in Vecs :
        /\ vec'[w] = vec[w]
        /\ Elems(vec', mem', w) = Elems(vec, mem, w)

C12_CopyIndependent == [][C12_Copies /\ C12_OtherUntouched]_vars

\* a copy of a vector of two elements has been constructed
C12_Witness ==
    /\ last.op = "Vector(const&)" /\ last.fail = "none"
    /\ vec["a"].size_ = 2 /\ vec["b"].size_ = 2
    /\ Elems(vec, mem, "a") = <<0, 1>>

\* C13: Vector d(std::move(s)): s is left with size 0, capacity 0 and the null
\* address, d has the block, size, capacity and elements s had, and no slot
\* of the heap has changed: nothing allocated, constructed, moved, copied or
\* destroyed
C13_MoveConstructs ==
    [][(last'.op = "Vector(&&)") =>
       \A v \in Vecs : \A w \in Vecs \ {v} :
         (~vec[v].live /\ vec[w].live /\ Did("Vector(&&)", MoveCtorOp(vec, mem, v, w))) =>
               /\ vec'[w] = EmptyVector
               /\ vec'[v] = vec[w]
               /\ Elems(vec', mem', v) = Elems(vec, mem, w)
               /\ mem' = mem]_vars

\* a vector holding an element has been moved into a new vector
C13_Witness ==
    /\ last.op = "Vector(&&)"
    /\ \E v \in Vecs : \E w \in Vecs \ {v} :
          vec[v].live /\ vec[v].size_ = 1 /\ vec[w] = EmptyVector

\* C14: Reserve(n) that returns: size and elements are as before and the
\* capacity is not smaller; if n <= capacity the vector and the heap are as
\* before, if n > capacity the capacity is exactly n
C14_Reserve ==
    [][(last'.op = "Reserve" /\ last'.fail = "none") =>
       \A v \in Vecs : \A n \in 0..MaxCap :
         LET R == ReserveOp(vec, mem, v, n, 0)
         IN (vec[v].live /\ R.fail = "none" /\ Did("Reserve", R)) =>
               /\ vec'[v].size_ = vec[v].size_
               /\ Elems(vec', mem', v) = Elems(vec, mem, v)
               /\ vec'[v].capacity_ >= vec[v].capacity_
               /\ (n <= vec[v].capacity_ => (vec' = vec /\ mem' = mem))
               /\ (n > vec[v].capacity_ => vec'[v].capacity_ = n)]_vars

\* a Reserve of a vector of two elements has taken a new block of four
C14_Witness ==
    /\ last.op = "Reserve" /\ last.fail = "none" /\ last.path = "realloc"
    /\ vec["a"].size_ = 2 /\ vec["a"].capacity_ = 4
    /\ Elems(vec, mem, "a") = <<1, 0>>

\* C15: Resize(n) of a vector of size s and capacity c that returns: the size
\* is n and the first min(s, n) elements are as before; if n > s the elements
\* [s, n) are value-initialised and the capacity is max(c, n); if n < s
\* exactly the s - n trailing objects are destroyed, block and capacity are
\* as before; if n = s nothing has changed
C15_Resize ==
    [][(last'.op = "Resize" /\ last'.fail = "none") =>
       \A v \in Vecs : \A n \in 0..MaxCap :
         LET R == ResizeOp(vec, mem, v, n, 0)
             s == vec[v].size_
             c == vec[v].capacity_
             p == vec[v].buffer_
             old == Elems(vec, mem, v)
             new == Elems(vec', mem', v)
         IN (vec[v].live /\ R.fail = "none" /\ Did("Resize", R)) =>
               /\ vec'[v].size_ = n
               /\ \A j \in 1..Min({s, n}) : new[j] = old[j]
               /\ (n > s =>
                     /\ \A j \in (s + 1)..n : new[j] = Default
                     /\ vec'[v].capacity_ = IF c > n THEN c ELSE n)
               /\ (n < s =>
                     /\ vec'[v].capacity_ = c /\ vec'[v].buffer_ = p
                     /\ \A j \in (n + 1)..s : mem'[p].cells[j] = Uninit
                     /\ LiveCount(mem'[p].cells) = LiveCount(mem[p].cells) - (s - n))
               /\ (n = s => (vec' = vec /\ mem' = mem))]_vars

\* a Resize from fewer than three elements to three has returned
C15_Witness ==
    /\ last.op = "Resize" /\ last.fail = "none" /\ last.path = "grow"
    /\ vec["a"].size_ = 3 /\ vec["a"].capacity_ = 3
    /\ Elems(vec, mem, "a") = <<1, 0, 0>>

\* C16: Vector(n) whose k-th value construction throws: the k - 1 objects
\* built are destroyed and the region released before the exception leaves;
\* no vector exists and the heap is as before
C16_SizedCtorCleansUp ==
    [][(last'.op = "Vector(n)" /\ last'.fail = "construct") =>
       \A v \in Vecs : \A n \in 0..MaxCap, f \in FailPoints(MaxCap) :
         LET R == SizedCtorOp(vec, mem, v, n, f)
         IN (~vec[v].live /\ R.fail = "construct" /\ Did("Vector(n)", R)) =>
               /\ R.lost = 0
               /\ mem' = mem
               /\ vec' = vec]_vars

\* a value construction of Vector(n) has thrown
C16_Witness ==
    /\ last.op = "Vector(n)" /\ last.fail = "construct"
    /\ ~vec["a"].live

\* v is internally consistent: size <= capacity, every slot of [0, size)
\* holds an object and no slot of [size, capacity) does
WellFormed(vc, m, v) ==
    /\ vc[v].size_ <= vc[v].capacity_
    /\ vc[v].buffer_ # Null =>
          /\ Len(m[vc[v].buffer_].cells) = vc[v].capacity_
          /\ \A i \in 1..vc[v].capacity_ :
                IsLive(m[vc[v].buffer_].cells[i]) <=> i <= vc[v].size_

\* C17 (as claimed): if an element copy assignment or copy construction of
\* the reuse path of a = b throws, a is internally consistent and b is as
\* before
C17_ReuseBasic ==
    [][(last'.op = "operator=(const&)" /\ last'.path = "reuse"
            /\ last'.fail \in {"assign", "transfer"}) =>
       \A v \in Vecs : \A w \in Vecs \ {v} : \A f \in FailPoints(MaxCapRhs) :
         LET R == CopyAssignOp(vec, mem, v, w, f)
         IN (vec[v].live /\ vec[w].live /\ R.fail # "none"
                /\ Did("operator=(const&)", R)) =>
               /\ WellFormed(vec', mem', v)
               /\ vec'[w] = vec[w]
               /\ Elems(vec', mem', w) = Elems(vec, mem, w)]_vars

\* C18: Insert of x at offset dist (0..size) and then Erase at dist: the size
\* and the elements are the original ones; the capacity is not smaller
C18_InsertEraseRoundTrip ==
    \A v \in Vecs : vec[v].live =>
       \A dist \in Offsets(v), x \in Vals :
         LET I == EmplaceOp(vec, mem, v, dist, x, 0)
             E == EraseOp(I.vec, I.mem, v, I.ret, 0)
         IN I.fail = "none" =>
               /\ E.fail = "none"
               /\ E.vec[v].size_ = vec[v].size_
               /\ Elems(E.vec, E.mem, v) = Elems(vec, mem, v)
               /\ E.vec[v].capacity_ >= vec[v].capacity_

\* a full vector <<1, 0>>: the insert at 1 takes a new block of four, the
\* erase at 1 gives <<1, 0>> back in that block
C18_Witness ==
    /\ vec["a"].live /\ vec["a"].size_ = 2 /\ vec["a"].capacity_ = 2
    /\ Elems(vec, mem, "a") = <<1, 0>>
    /\ LET I == EmplaceOp(vec, mem, "a", 1, 1, 0)
           E == EraseOp(I.vec, I.mem, "a", I.ret, 0)
       IN /\ I.fail = "none" /\ I.path = "realloc"
          /\ Elems(I.vec, I.mem, "a") = <<1, 1, 0>>
          /\ E.vec["a"].capacity_ = 4
          /\ Elems(E.vec, E.mem, "a") = <<1, 0>>

\* C19 (as claimed): over every sequence of calls, returning or throwing,
\* every object constructed in a block is destroyed before the block is
\* released or abandoned: between calls every object in the heap is an
\* element [0, size) of a vector holding its region, and no append, insert or
\* destructor releases a region with an object still in it
C19_AllOwned ==
    \A p \in Addrs : \A i \in DOMAIN mem[p].cells :
        IsLive(mem[p].cells[i]) =>
            \E v \in Vecs : vec[v].live /\ vec[v].buffer_ = p /\ i <= vec[v].size_

C19_NothingLost ==
    /\ (last'.op = "EmplaceBack") =>
          \A v \in Vecs : \A x \in Vals, f \in FailPoints(MaxCap) :
            LET R == EmplaceBackOp(vec, mem, v, x, f)
            IN (vec[v].live /\ Did("EmplaceBack", R)) => R.lost = 0
    /\ (last'.op = "Emplace") =>
          \A v \in Vecs : \A dist \in Offsets(v), x \in Vals, f \in FailPoints(MaxCap) :
            LET R == EmplaceOp(vec, mem, v, dist, x, f)
            IN (vec[v].live /\ Did("Emplace", R)) => R.lost = 0
    /\ (last'.op = "~Vector") =>
          \A v \in Vecs :
            LET R == DtorOp(vec, mem, v)
            IN (vec[v].live /\ Did("~Vector", R)) => R.lost = 0

C19_LifetimeBalanced == []C19_AllOwned /\ [][C19_NothingLost]_vars

\* C20: whenever the block is full and not empty, so that an insert before
\* the end takes the reallocating path, size = capacity > 0 and the insert
\* asks for the capacity an append would ask for; every insert that took the
\* reallocating path started from size = capacity > 0 and, if it returned,
\* left the capacity of the append policy
C20_Full ==
    \A v \in Vecs :
        (vec[v].live /\ vec[v].size_ > 0 /\ ~(vec[v].size_ < vec[v].capacity_)) =>
            /\ vec[v].size_ = vec[v].capacity_
            /\ EmplaceWithReallocCapacity(vec[v].size_)
                  = EmplaceBackCapacity(vec[v].size_, vec[v].capacity_)

C20_Took ==
    (last'.op = "Emplace" /\ last'.path = "realloc") =>
       \A v \in Vecs : \A dist \in Offsets(v) \ {vec[v].size_}, x \in Vals, f \in FailPoints(MaxCap) :
         LET R == EmplaceOp(vec, mem, v, dist, x, f)
         IN (vec[v].live /\ Did("Emplace", R)) =>
               /\ vec[v].size_ = vec[v].capacity_ /\ vec[v].size_ > 0
               /\ (R.fail = "none" =>
                      vec'[v].capacity_ = EmplaceBackCapacity(vec[v].size_, vec[v].capacity_))

C20_GrowthParity == []C20_Full /\ [][C20_Took]_vars

\* an insert before the end of a full vector of two has returned
C20_Witness ==
    /\ last.op = "Emplace" /\ last.fail = "none" /\ last.path = "realloc"
    /\ vec["a"].size_ = 3 /\ vec["a"].capacity_ = 4
====
